---- MODULE Spec2Model ----
(***************************************************************************)
(* Model of the numeric cores of beautiful-atoms:                          *)
(*   - Cavity.build_cavity and its helpers (batoms/cavity/__init__.py)     *)
(*   - build_bondlists / calc_bond_data / secondBond (bonds.py)            *)
(*   - Bonds.update and Bonds.set_arrays (bonds.py)                        *)
(*   - the position setters of ObjectGN (batoms/base/object.py) and        *)
(*     Bonds.set_offsets                                                   *)
(*   - Cavity.set_arrays, ObjectGN.get_gnodes and ObjectGN.set_obj_frames  *)
(*   - install and uninstall in conda mode (install.py)                    *)
(*                                                                         *)
(* Lengths are integers in tenths of a length unit (Unit = 10), so that    *)
(* the refinement offsets k/5 * resolution/2 are integers.  A nearest-atom *)
(* distance d is carried as its square; a radius is the pair (sq, off)     *)
(* standing for sqrt(sq) - off, and every comparison the code makes on     *)
(* distances and radii is made exactly on these pairs.                     *)
(***************************************************************************)
EXTENDS Integers, Sequences, FiniteSets, TLC

VARIABLES
    pc,            \* position in the pipeline that is running
    positions,     \* batoms.arrays["positions"]: the atoms
    cell,          \* batoms.cell: the three edge lengths of the cell
    resolution,    \* Cavity.resolution
    minRadius,     \* Cavity.minRadius
    meshgrids,     \* find_cage_spheres: the remaining grid points
    distances,     \* find_cage_spheres: their nearest-atom distances (squared)
    imax,          \* find_cage_spheres: index of the current maximum
    centers,       \* spheres['centers']
    radii,         \* spheres['radii']
    collection,    \* Cavity.setting.collection: the classification buckets
    species_index, \* species_index array returned by build_cavity
    found,         \* the spheres as returned by find_cage_spheres
    filtered,      \* the spheres as returned by check_sphere_boundary
    speciesarray,  \* calc_bond_data: species of every atom
    nl,            \* rows returned by the neighbour search
    bondlists,     \* rows returned by build_bondlists
    bondsetting,   \* the bond-style rules, in declaration order
    ib,            \* calc_bond_data: number of rules already applied
    bond,          \* calc_bond_data: the per-bond arrays
    frames,        \* Bonds.update: neighbour rows found in every frame
    cutoff,        \* Bonds.update: self.setting.cutoff_dict
    f,             \* Bonds.update: number of frames already processed
    bondlist,      \* Bonds.update: value of the last build_bondlists call
    merged,        \* Bonds.update: its local bondlists, the merged list
    attributes,    \* the bond object: the per-vertex arrays it stores
    object,        \* number of the Cavity object in use
    returned,      \* what the build_cavity calls made so far returned
    obj,           \* self.obj: the mesh of an ObjectGN and its shape keys
    obj_o,         \* Bonds.obj_o: the mesh holding the bond offsets
    call,          \* the last call made on the object: method and array
    raised,        \* the exception the last call on the object raised
    modifiers,     \* obj.modifiers: the names of the modifiers of the object
    gnodes,        \* what the last get_gnodes call returned
    animation,     \* name and keyframes of every shape key of obj
    tree,          \* install.py: the entries under blender_root
    run,           \* install.py: the command running and its parameters
    log            \* install.py: the commands that have ended, in order

cavityVars == <<positions, cell, resolution, minRadius, meshgrids, distances,
                imax, centers, radii, collection, species_index, found,
                filtered>>
bondVars == <<speciesarray, nl, bondlists, bondsetting, ib, bond>>
updateVars == <<frames, cutoff, f, bondlist, merged, attributes>>
callVars == <<object, returned>>
objectVars == <<obj, obj_o, call, raised>>
gnVars == <<modifiers, gnodes, animation>>
installVars == <<tree, run, log>>
nonCavityVars == <<bondVars, updateVars, callVars, objectVars, gnVars,
                   installVars>>
nonBondVars == <<cavityVars, updateVars, callVars, objectVars, gnVars,
                 installVars>>
nonUpdateVars == <<cavityVars, bondVars, callVars, objectVars, gnVars,
                   installVars>>
vars == <<pc, cavityVars, bondVars, updateVars, callVars, objectVars, gnVars,
          installVars>>

(***************************************************************************)
(* Bounds of the model and constants of the program.                       *)
(***************************************************************************)
MaxAtoms == 2
MaxCell == 4
MaxResolution == 2
MaxMinRadius == 1
Unit == 10
RefineNPoint == 5
RefineMargin == 2
RefineMinRadius == 1

(***************************************************************************)
(* Helpers on sequences and sets.                                          *)
(***************************************************************************)
SetMax(S) == CHOOSE x \in S : \A y \in S : y <= x
SetMin(S) == CHOOSE x \in S : \A y \in S : x <= y
Range(s) == {s[k] : k \in DOMAIN s}

\* numpy boolean-mask indexing a[mask]: the kept elements, in order
MaskSeq(s, mask) ==
    LET RECURSIVE Kept(_, _)
        Kept(lo, hi) ==
            IF lo > hi THEN <<>>
            ELSE IF lo = hi THEN IF mask[lo] THEN <<s[lo]>> ELSE <<>>
            ELSE LET mid == (lo + hi) \div 2
                 IN Kept(lo, mid) \o Kept(mid + 1, hi)
    IN Kept(1, Len(s))

\* np.argmax: the first index holding the maximum (1-based here)
RECURSIVE ArgmaxLastIn(_, _, _)
ArgmaxLastIn(d, lo, hi) ==
    IF lo = hi THEN lo
    ELSE LET mid == (lo + hi) \div 2
             a == ArgmaxLastIn(d, lo, mid)
             b == ArgmaxLastIn(d, mid + 1, hi)
         IN IF d[b] >= d[a] THEN b ELSE a
RECURSIVE ArgmaxIn(_, _, _)
ArgmaxIn(d, lo, hi) ==
    IF lo = hi THEN lo
    ELSE LET mid == (lo + hi) \div 2
             a == ArgmaxIn(d, lo, mid)
             b == ArgmaxIn(d, mid + 1, hi)
         IN IF d[b] > d[a] THEN b ELSE a
argmaxLast(d) == ArgmaxLastIn(d, 1, Len(d))
argmaxHead(d) == 1
argmax(d) == ArgmaxIn(d, 1, Len(d))

Dist2(p, q) == (p[1]-q[1])*(p[1]-q[1]) + (p[2]-q[2])*(p[2]-q[2])
               + (p[3]-q[3])*(p[3]-q[3])

(***************************************************************************)
(* Radii: [sq, off] stands for sqrt(sq) - off.                             *)
(***************************************************************************)
Radius(sq, off) == [sq |-> sq, off |-> off]
\* radius < x, radius <= x, radius > x for an integer x
RadiusLT(r, x) == x + r.off > 0 /\ r.sq < (x + r.off) * (x + r.off)
RadiusLE(r, x) == x + r.off >= 0 /\ r.sq <= (x + r.off) * (x + r.off)
RadiusGT(r, x) == ~RadiusLE(r, x)
RadiusGE(r, x) == ~RadiusLT(r, x)

(***************************************************************************)
(* Cavity.build_grid, build_kdtree, query_distance, query_radius.          *)
(***************************************************************************)
npoint(c, res) == [i \in 1..3 |-> c[i] \div res]

\* np.meshgrid(..., indexing='ij') ravelled: the first axis is the slowest
build_grid(c, res) ==
    LET n == npoint(c, res)
        total == n[1] * n[2] * n[3]
    IN [k \in 1..total |->
          LET ix == (k-1) \div (n[2] * n[3])
              iy == ((k-1) \div n[3]) % n[2]
              iz == (k-1) % n[3]
          IN <<(ix * c[1]) \div n[1], (iy * c[2]) \div n[2],
               (iz * c[3]) \div n[3]>>]

\* np.inf as a squared distance: a number above every squared distance
\* between two points of the model
Infinity == 1000000

\* KDTree.query: the (squared) distance to the nearest atom of every point;
\* a tree without points answers with an infinite distance
query_distance(points, atoms) ==
    [k \in DOMAIN points |->
        IF atoms = {} THEN Infinity
        ELSE SetMin({Dist2(points[k], a) : a \in atoms})]

\* KDTree.query_ball_point: indices of the grid points within the radius
query_radiusStrict(grid, center, r2) ==
    {k \in DOMAIN grid : Dist2(grid[k], center) < r2}
query_radius(grid, center, r2) ==
    {k \in DOMAIN grid : Dist2(grid[k], center) <= r2}

(***************************************************************************)
(* Inputs of a build_cavity call.                                          *)
(***************************************************************************)
AtomSites == {<<0, 0, 0>>, <<10, 10, 10>>, <<10, 10, 15>>, <<15, 15, 15>>,
              <<5, 5, 5>>}
\* a simple cubic lattice of atoms with one vacancy
Vacancy == {<<x, y, z>> : x \in {0, 10, 20}, y \in {0, 10, 20},
                         z \in {0, 10, 20}} \ {<<10, 10, 10>>}
Structures == {A \in SUBSET AtomSites : Cardinality(A) \in 0..MaxAtoms}
              \cup {Vacancy}
Cells == {<<Unit * l, Unit * l, Unit * l>> : l \in 1..MaxCell}
Resolutions == {Unit * r : r \in 1..MaxResolution}
MinRadii == {Unit * m : m \in 0..MaxMinRadius}
Bucket(name, lo, hi) == [name |-> name, min |-> lo, max |-> hi]
\* bucket collections left by earlier calls or set by the user
Settings == {<<>>,
             <<Bucket(0, 1, 3)>>,
             <<Bucket(0, 0, 3), Bucket(1, 0, 2)>>,
             <<Bucket(0, 0, 2), Bucket(1, 0, 3)>>}

(***************************************************************************)
(* Cavity.build_cavity, lines 156-160: grid, k-d tree, distance field.     *)
(***************************************************************************)
BuildGrid ==
    /\ pc = "build_cavity"
    /\ meshgrids' = build_grid(cell, resolution)
    /\ distances' = query_distance(build_grid(cell, resolution), positions)
    /\ pc' = "find_cage_spheres"
    /\ UNCHANGED <<positions, cell, resolution, minRadius, imax, centers,
                   radii, collection, species_index, found, filtered>>
    /\ UNCHANGED nonCavityVars

(***************************************************************************)
(* Cavity.find_cage_spheres.  np.argmax of an empty array raises           *)
(* ValueError: the call then ends in pc = "ValueError".                    *)
(***************************************************************************)
FindCageInit ==
    /\ pc = "find_cage_spheres"
    /\ IF Len(distances) = 0
       THEN pc' = "ValueError" /\ UNCHANGED imax
       ELSE pc' = "while" /\ imax' = argmax(distances)
    /\ centers' = <<>>
    /\ radii' = <<>>
    /\ UNCHANGED <<positions, cell, resolution, minRadius, meshgrids,
                   distances, collection, species_index, found, filtered>>
    /\ UNCHANGED nonCavityVars

\* the loop condition  dmax > self.minRadius
LoopCond(d2, m) == RadiusGT(Radius(d2, 0), m)

\* mask after mask[imax] = False; mask[indices1] = False
ExclusionMask(grid, k, r2) ==
    LET indices1 == query_radius(grid, grid[k], r2)
    IN [j \in DOMAIN grid |-> j # k /\ j \notin indices1]

\* one pass of the while loop, lines 212-224
LoopIter ==
    /\ pc = "while"
    /\ LoopCond(distances[imax], minRadius)
    /\ LET mask == ExclusionMask(meshgrids, imax, distances[imax])
           d1 == MaskSeq(distances, mask)
       IN /\ centers' = Append(centers, meshgrids[imax])
          /\ radii' = Append(radii, Radius(distances[imax], 0))
          /\ distances' = d1
          /\ meshgrids' = MaskSeq(meshgrids, mask)
          /\ IF Len(d1) = 0
             THEN pc' = "ValueError" /\ UNCHANGED imax
             ELSE pc' = "while" /\ imax' = argmax(d1)
    /\ UNCHANGED <<positions, cell, resolution, minRadius, collection,
                   species_index, found, filtered>>
    /\ UNCHANGED nonCavityVars

\* the loop ends and the spheres are returned, lines 226-228
LoopExit ==
    /\ pc = "while"
    /\ ~LoopCond(distances[imax], minRadius)
    /\ found' = [centers |-> centers, radii |-> radii]
    /\ pc' = "check_sphere_boundary"
    /\ UNCHANGED <<positions, cell, resolution, minRadius, meshgrids,
                   distances, imax, centers, radii, collection,
                   species_index, filtered>>
    /\ UNCHANGED nonCavityVars


(***************************************************************************)
(* Cavity.check_sphere_boundary.  pointCellDistance gives the distances    *)
(* from a point to the six faces of the cell; the cells of this model are  *)
(* orthorhombic, so these are the distances to the planes x_i = 0 and      *)
(* x_i = length_i.                                                         *)
(***************************************************************************)
Abs(x) == IF x < 0 THEN -x ELSE x
pointCellDistance(p, c) ==
    {Abs(p[i]) : i \in 1..3} \cup {Abs(c[i] - p[i]) : i \in 1..3}

\* the test  dmin > spheres0['radii'][i]  of line 248
KeepSphere(dmin, r) == RadiusLT(r, dmin)

check_sphere_boundary(spheres0, c) ==
    LET keep == [i \in DOMAIN spheres0.centers |->
                   KeepSphere(SetMin(pointCellDistance(spheres0.centers[i], c)),
                              spheres0.radii[i])]
    IN [centers |-> MaskSeq(spheres0.centers, keep),
        radii |-> MaskSeq(spheres0.radii, keep)]

CheckBoundary ==
    /\ pc = "check_sphere_boundary"
    /\ filtered' = check_sphere_boundary(found, cell)
    /\ centers' = check_sphere_boundary(found, cell).centers
    /\ radii' = check_sphere_boundary(found, cell).radii
    /\ pc' = "refine_spheres"
    /\ UNCHANGED <<positions, cell, resolution, minRadius, meshgrids,
                   distances, imax, collection, species_index, found>>
    /\ UNCHANGED nonCavityVars

(***************************************************************************)
(* Cavity.refine_spheres.                                                  *)
(***************************************************************************)
\* grid = np.arange(-npoint, npoint + 1) / npoint * resolution / 2
RefineOffset(k, res) == (k * res) \div (2 * RefineNPoint)

\* meshgrids0 + center, ravelled with the first axis slowest
RefinePatch(center, res) ==
    LET w == 2 * RefineNPoint + 1
    IN [k \in 1..(w * w * w) |->
          LET ix == (k-1) \div (w * w)
              iy == ((k-1) \div w) % w
              iz == (k-1) % w
          IN <<center[1] + RefineOffset(ix - RefineNPoint, res),
               center[2] + RefineOffset(iy - RefineNPoint, res),
               center[3] + RefineOffset(iz - RefineNPoint, res)>>]

\* max(1, distances[imax] - 2)
RefinedRadiusNoClamp(d2) == Radius(d2, RefineMargin * Unit)
RefinedRadius(d2) ==
    IF RadiusLE(Radius(d2, RefineMargin * Unit), RefineMinRadius * Unit)
    THEN Radius(RefineMinRadius * Unit * RefineMinRadius * Unit, 0)
    ELSE Radius(d2, RefineMargin * Unit)

refine_spheres(spheres, atoms, res) ==
    LET one(i) ==
          LET patch == RefinePatch(spheres.centers[i], res)
              dist == query_distance(patch, atoms)
              im == argmax(dist)
          IN [center |-> patch[im], radius |-> RefinedRadius(dist[im])]
        all == [i \in DOMAIN spheres.centers |-> one(i)]
    IN [centers |-> [i \in DOMAIN all |-> all[i].center],
        radii |-> [i \in DOMAIN all |-> all[i].radius]]

Refine ==
    /\ pc = "refine_spheres"
    /\ LET s == refine_spheres(filtered, positions, resolution)
       IN centers' = s.centers /\ radii' = s.radii
    /\ pc' = "classify"
    /\ UNCHANGED <<positions, cell, resolution, minRadius, meshgrids,
                   distances, imax, collection, species_index, found,
                   filtered>>
    /\ UNCHANGED nonCavityVars


(***************************************************************************)
(* Cavity.build_cavity, lines 164-194: classification into buckets.        *)
(***************************************************************************)
\* np.floor(r) and np.ceil(r), in whole length units
Floor(r) == SetMax({m \in 0..(r.sq \div (Unit * Unit) + 1) :
                       RadiusGE(r, Unit * m)})
Ceil(r) == SetMin({m \in 0..(r.sq \div (Unit * Unit) + 1) :
                      RadiusLE(r, Unit * m)})

\* the test  r > cav.min and r < cav.max
InBucket(r, cav) == RadiusGT(r, Unit * cav.min) /\ RadiusLT(r, Unit * cav.max)

\* string2Number of the decimal name of a bucket: the bytes of the string
\* read as a little-endian integer
string2NumberOfName(n) ==
    IF n < 10 THEN 48 + n
    ELSE (48 + (n \div 10)) + 256 * (48 + (n % 10))

\* lines 169-181: a bucket [floor(r), ceil(r)] is added for every radius
\* that no bucket of the collection contains
AddBuckets(rs, coll) ==
    LET F[k \in 0..Len(rs)] ==
          IF k = 0 THEN coll
          ELSE IF \E c \in DOMAIN F[k-1] : InBucket(rs[k], F[k-1][c])
               THEN F[k-1]
               ELSE Append(F[k-1],
                           Bucket(Len(F[k-1]), Floor(rs[k]), Ceil(rs[k])))
    IN F[Len(rs)]

\* lines 182-189: every bucket in turn writes its id over the spheres it
\* contains
AssignBucketsPerBucket(rs, coll) == [c \in DOMAIN coll |-> 0]
AssignBuckets(rs, coll) ==
    LET F[k \in 0..Len(coll)] ==
          IF k = 0 THEN [i \in DOMAIN rs |-> 0]
          ELSE [i \in DOMAIN rs |->
                  IF InBucket(rs[i], coll[k])
                  THEN string2NumberOfName(coll[k].name)
                  ELSE F[k-1][i]]
    IN F[Len(coll)]

Classify ==
    /\ pc = "classify"
    /\ collection' = AddBuckets(radii, collection)
    /\ species_index' = AssignBuckets(radii, AddBuckets(radii, collection))
    /\ pc' = "done"
    /\ UNCHANGED <<positions, cell, resolution, minRadius, meshgrids,
                   distances, imax, centers, radii, found, filtered>>
    /\ UNCHANGED nonCavityVars

(***************************************************************************)
(* Values of Bonds.update while no update is running.  The value of a      *)
(* build_bondlists call is an (n, 5) integer array or a dict.              *)
(***************************************************************************)
Ndarray(rows) == [type |-> "ndarray", rows |-> rows]
Dict == [type |-> "dict", rows |-> <<>>]
\* the attributes of a bond object without vertices
NoAttributes == [atoms_index1 |-> <<>>, atoms_index2 |-> <<>>,
                 atoms_index3 |-> <<>>, atoms_index4 |-> <<>>,
                 species_index1 |-> <<>>, species_index2 |-> <<>>,
                 order |-> <<>>, style |-> <<>>, show |-> <<>>]
UpdateIdle ==
    /\ frames = <<>>
    /\ cutoff = {}
    /\ f = 0
    /\ bondlist = Ndarray(<<>>)
    /\ merged = Ndarray(<<>>)
    /\ attributes = NoAttributes
\* a first Cavity object on which build_cavity has not returned yet
CallIdle ==
    /\ object = 1
    /\ returned = <<>>
\* a mesh: the coordinates of its vertices and the data of its shape keys
\* (no key block: mesh.shape_keys is None)
Mesh(co, keys) == [co |-> co, key_blocks |-> keys]
NoRaise == [type |-> "none", counts |-> <<>>]
Call(method, array) == [method |-> method, array |-> array]
\* meshes without vertices, on which no call has been made
ObjectIdle ==
    /\ obj = Mesh(<<>>, <<>>)
    /\ obj_o = Mesh(<<>>, <<>>)
    /\ call = Call("none", <<>>)
    /\ raised = NoRaise

\* an object without modifier and without shape key, on which get_gnodes
\* has not been called
GnIdle ==
    /\ modifiers = <<>>
    /\ gnodes = "unset"
    /\ animation = <<>>
\* no installer command has run
Tree(python, old_python, plugin) ==
    [python |-> python, old_python |-> old_python, plugin |-> plugin]
NoRun == [command |-> "none", dependency_only |-> FALSE, restored |-> FALSE,
          start |-> Tree("absent", "absent", "absent")]
InstallIdle ==
    /\ tree = Tree("absent", "absent", "absent")
    /\ run = NoRun
    /\ log = <<>>

(***************************************************************************)
(* The cavity pipeline: one build_cavity call on every input.              *)
(***************************************************************************)
NoSpheres == [centers |-> <<>>, radii |-> <<>>]

CavityInit ==
    /\ pc = "build_cavity"
    /\ positions \in Structures
    /\ cell \in Cells
    /\ resolution \in Resolutions
    /\ minRadius \in MinRadii
    /\ collection \in Settings
    /\ meshgrids = <<>>
    /\ distances = <<>>
    /\ imax = 0
    /\ centers = <<>>
    /\ radii = <<>>
    /\ species_index = <<>>
    /\ found = NoSpheres
    /\ filtered = NoSpheres
    /\ speciesarray = <<>>
    /\ nl = <<>>
    /\ bondlists = <<>>
    /\ bondsetting = <<>>
    /\ ib = 0
    /\ bond = <<>>
    /\ UpdateIdle
    /\ CallIdle
    /\ GnIdle
    /\ InstallIdle
    /\ ObjectIdle

CavityNext ==
    \/ BuildGrid
    \/ FindCageInit
    \/ LoopIter
    \/ LoopExit
    \/ CheckBoundary
    \/ Refine
    \/ Classify

CavitySpec == CavityInit /\ [][CavityNext]_vars


(***************************************************************************)
(* Claims on greedy extraction (Cavity.find_cage_spheres).                 *)
(***************************************************************************)
IsFirstMax(k, d) ==
    \A j \in DOMAIN d : d[j] <= d[k] /\ (j < k => d[j] < d[k])
Recorded == Len(centers') = Len(centers) + 1
Last(s) == s[Len(s)]

Rank(j, K) == Cardinality({i \in K : i <= j})
NoOverlap(cs, rs) ==
    \A a, b \in DOMAIN cs : a < b => Dist2(cs[a], cs[b]) > rs[a].sq

\* C2: when a sphere is recorded, exactly the remaining grid points within
\* its radius of its centre (<=, the centre included) leave the candidate
\* set, the others stay in order with their distances; hence the centre of
\* every later sphere is farther from an earlier sphere's centre than that
\* sphere's radius.
C2_Exclusion ==
    /\ [][pc = "while" /\ Recorded =>
            LET c == Last(centers')
                r2 == Last(radii').sq
                K == {j \in DOMAIN meshgrids : Dist2(meshgrids[j], c) > r2}
            IN /\ Dist2(c, c) <= r2
               /\ Len(meshgrids') = Cardinality(K)
               /\ Len(distances') = Cardinality(K)
               /\ \A j \in K : /\ meshgrids'[Rank(j, K)] = meshgrids[j]
                               /\ distances'[Rank(j, K)] = distances[j]]_vars
    /\ [](NoOverlap(found.centers, found.radii)
          /\ (pc \in {"while", "ValueError"} => NoOverlap(centers, radii)))

\* two spheres were extracted, and the first one removed a grid point that
\* lies exactly on its surface
C2_Witness ==
    /\ pc = "while"
    /\ Len(centers) >= 2
    /\ \E p \in Range(build_grid(cell, resolution)) :
          /\ p # centers[1]
          /\ Dist2(p, centers[1]) = radii[1].sq
          /\ p \notin Range(meshgrids)

\* C3 (as claimed): find_cage_spheres always halts by returning its list of
\* spheres; it never ends in an exception.
C3_ReturnsSpheres == pc # "ValueError"

\* C5 (as claimed): every sphere returned by build_cavity has a radius <=
\* the minimum distance from its final centre to the cell boundary.
C5_FinalInsideCell ==
    pc = "done" =>
        \A i \in DOMAIN radii :
            RadiusLE(radii[i], SetMin(pointCellDistance(centers[i], cell)))


(***************************************************************************)
(* The methods applied to the spheres: check_sphere_boundary,              *)
(* refine_spheres and the classification run on spheres centred on grid    *)
(* points of the cell, each with its nearest-atom distance as radius.      *)
(***************************************************************************)
MaxSpheres == 2
SphereCells == {<<30, 30, 30>>, <<40, 40, 40>>}
SphereSites == {<<10, 10, 10>>, <<20, 20, 20>>, <<10, 20, 20>>, <<0, 10, 10>>}
SphereLists(c, res) ==
    LET sites == SphereSites \cap Range(build_grid(c, res))
    IN UNION {{s \in [1..n -> sites] : \A a, b \in 1..n : a # b => s[a] # s[b]} :
                 n \in 0..MaxSpheres}

SphereInit ==
    /\ pc = "check_sphere_boundary"
    /\ positions \in {{a} : a \in AtomSites}
    /\ cell \in SphereCells
    /\ resolution \in Resolutions
    /\ minRadius = 0
    /\ collection \in Settings
    /\ \E cs \in SphereLists(cell, resolution) :
          /\ centers = cs
          /\ radii = [i \in DOMAIN cs |->
                        Radius(query_distance(cs, positions)[i], 0)]
          /\ found = [centers |-> cs,
                      radii |-> [i \in DOMAIN cs |->
                                   Radius(query_distance(cs, positions)[i], 0)]]
    /\ meshgrids = <<>>
    /\ distances = <<>>
    /\ imax = 0
    /\ species_index = <<>>
    /\ filtered = NoSpheres
    /\ speciesarray = <<>>
    /\ nl = <<>>
    /\ bondlists = <<>>
    /\ bondsetting = <<>>
    /\ ib = 0
    /\ bond = <<>>
    /\ UpdateIdle
    /\ CallIdle
    /\ GnIdle
    /\ InstallIdle
    /\ ObjectIdle

SphereNext ==
    \/ CheckBoundary
    \/ Refine
    \/ Classify

SphereSpec == SphereInit /\ [][SphereNext]_vars


(***************************************************************************)
(* Claims on boundary filtering, refinement and classification.            *)
(***************************************************************************)
FaceDistance(p) == SetMin(pointCellDistance(p, cell))
IsSubsequenceOn(K, short, long) ==
    /\ Len(short) = Cardinality(K)
    /\ \A i \in K : short[Rank(i, K)] = long[i]

\* C4 (as claimed): check_sphere_boundary discards a sphere if and only if
\* its radius exceeds the minimum distance from its centre to the six cell
\* faces, so a sphere whose radius equals that distance is kept; the kept
\* spheres keep their order, centres and radii.
C4_DiscardIffExceeds ==
    pc = "refine_spheres" =>
        LET K == {i \in DOMAIN found.centers :
                     found.radii[i].sq <=
                        FaceDistance(found.centers[i])
                           * FaceDistance(found.centers[i])}
        IN /\ IsSubsequenceOn(K, filtered.centers, found.centers)
           /\ IsSubsequenceOn(K, filtered.radii, found.radii)

\* the points k/5 * resolution/2 (k = -5..5 per axis) around a centre
PatchSet(c) ==
    LET off == {(k * resolution) \div 10 : k \in -5..5}
    IN {<<c[1] + x, c[2] + y, c[3] + z>> : x \in off, y \in off, z \in off}
Nearest2(p) == SetMin({Dist2(p, a) : a \in positions})

\* C6: refine_spheres moves every sphere to a point of its local patch
\* with the largest nearest-atom distance D and gives it the radius
\* max(1, D - 2); the number and order of the spheres do not change and
\* every refined radius is >= 1.
C6_Refinement ==
    pc = "classify" =>
        /\ Len(centers) = Len(filtered.centers)
        /\ Len(radii) = Len(filtered.centers)
        /\ \A i \in DOMAIN centers :
              LET D2 == Nearest2(centers[i])
              IN /\ centers[i] \in PatchSet(filtered.centers[i])
                 /\ \A q \in PatchSet(filtered.centers[i]) : Nearest2(q) <= D2
                 /\ radii[i] = IF D2 > 30 * 30 THEN Radius(D2, 20)
                               ELSE Radius(10 * 10, 0)
                 /\ RadiusGE(radii[i], 10)

\* a sphere was refined: its centre moved and its radius is D - 2 > 1
C6_Witness ==
    /\ pc = "classify"
    /\ \E i \in DOMAIN centers :
          /\ centers[i] # filtered.centers[i]
          /\ radii[i].off = 20
          /\ RadiusGT(radii[i], 10)

\* C7 (as claimed): each sphere's species_index is the id of the first
\* bucket, in creation order, whose range [min, max) contains the sphere's
\* final radius.
C7_FirstHalfOpenBucket ==
    pc = "done" =>
        \A i \in DOMAIN radii :
            LET M == {c \in DOMAIN collection :
                         /\ RadiusGE(radii[i], Unit * collection[c].min)
                         /\ RadiusLT(radii[i], Unit * collection[c].max)}
            IN M # {} =>
                 species_index[i] =
                     string2NumberOfName(collection[SetMin(M)].name)


(***************************************************************************)
(* bonds.py: build_bondlists, calc_bond_data, secondBond.                  *)
(*                                                                         *)
(* A row of a bond list is <<i, j, S>>: two atom indices (counted from 0   *)
(* as in the code) and the periodic image shift S.  The arrays of          *)
(* calc_bond_data are sequences indexed from 1, so row k of the code is    *)
(* element k + 1.  The geometry arrays (centers, offsets) and              *)
(* model_styles are copied from the input and play no part in the rule     *)
(* matching; they are left out.                                            *)
(***************************************************************************)
MaxBonds == 3
MaxRules == 2

Row(i, j, S) == <<i, j, S>>
Concat(s, t) == s \o t

\* np.unique of a 2-d array without axis: the sorted distinct scalars
Unique(rows) ==
    UNION {{rows[k][1], rows[k][2], rows[k][3][1], rows[k][3][2],
            rows[k][3][3]} : k \in DOMAIN rows}

\* lines 768-773: the mirrored copy is built and np.unique is called on the
\* concatenation, but its value is dropped and bondlists is returned
build_bondlists(rows) ==
    LET bondlists1 == [k \in DOMAIN rows |->
                          Row(rows[k][2], rows[k][1], rows[k][3])]
        bondlists2 == Concat(rows, bondlists1)
        dropped == Unique(bondlists2)
    IN rows

\* np.roll(a, 1)
Roll(a) ==
    [k \in DOMAIN a |-> IF k = 1 THEN a[Len(a)] ELSE a[k-1]]

\* species of atom number i (0-based)
SpeciesOf(sp, i) == sp[i + 1]

\* string2Number of a species name: its bytes as a little-endian integer
string2Number(name) ==
    CASE name = "C" -> 67
      [] name = "H" -> 72

\* int(b.style)
StyleInt(style) ==
    CASE style = "0" -> 0
      [] style = "1" -> 1
      [] style = "2" -> 2

\* ind = indi & indj of lines 808-810 (and 843-845)
MatchesFirstOnly(b, sp, row) == SpeciesOf(sp, row[1]) = b.species1
Matches(b, sp, row) ==
    /\ SpeciesOf(sp, row[1]) = b.species1
    /\ SpeciesOf(sp, row[2]) = b.species2

\* a[ind] = value
Assign(a, ind, value) == [k \in DOMAIN a |-> IF ind[k] THEN value ELSE a[k]]

\* indi | indj | indi1 | indj2 of line 849
InBondlists2OneWay(b, sp, row) ==
    \/ SpeciesOf(sp, row[1]) = b.species1
    \/ SpeciesOf(sp, row[2]) = b.species2
InBondlists2(b, sp, row) ==
    \/ SpeciesOf(sp, row[1]) = b.species1
    \/ SpeciesOf(sp, row[2]) = b.species2
    \/ SpeciesOf(sp, row[2]) = b.species1
    \/ SpeciesOf(sp, row[1]) = b.species2

\* the mask of lines 852-857 for the bond row r and the candidate row c
LocalMask(c, r) ==
    ~(\/ (c[1] = r[1] /\ c[2] = r[2])
      \/ (c[1] # r[1] /\ c[1] # r[2] /\ c[2] # r[1] /\ c[2] # r[2]))

secondBond(b, sp, atoms_index3, atoms_index4, rows) ==
    LET bondlists1 ==
            MaskSeq(rows, [k \in DOMAIN rows |-> Matches(b, sp, rows[k])])
        bondlists2 ==
            MaskSeq(rows, [k \in DOMAIN rows |-> InBondlists2(b, sp, rows[k])])
        F[i \in 0..Len(bondlists1)] ==
            IF i = 0 THEN <<atoms_index3, atoms_index4>>
            ELSE LET localbondlist ==
                       MaskSeq(bondlists2,
                               [k \in DOMAIN bondlists2 |->
                                   LocalMask(bondlists2[k], bondlists1[i])])
                 IN IF Len(localbondlist) = 0
                    THEN <<[F[i-1][1] EXCEPT ![i] = 0],
                           [F[i-1][2] EXCEPT ![i] = 1]>>
                    ELSE <<[F[i-1][1] EXCEPT ![i] = localbondlist[1][1]],
                           [F[i-1][2] EXCEPT ![i] = localbondlist[1][2]]>>
    IN F[Len(bondlists1)]


(***************************************************************************)
(* Inputs of the bond pipeline.                                            *)
(***************************************************************************)
NoShift == <<0, 0, 0>>
ShiftX == <<1, 0, 0>>
RowSet == {Row(0, 1, NoShift), Row(1, 0, NoShift), Row(0, 1, ShiftX),
           Row(1, 2, NoShift), Row(2, 0, NoShift)}
SpeciesArrays == {<<"C", "C", "C">>, <<"C", "H", "C">>, <<"H", "C", "C">>}
Rule(sp1, sp2, order, style, width) ==
    [species1 |-> sp1, species2 |-> sp2, order |-> order, style |-> style,
     width |-> width]
RuleSet == {Rule("C", "C", 2, "1", 2), Rule("C", "C", 1, "0", 1),
            Rule("C", "H", 3, "2", 3), Rule("H", "C", 1, "0", 1)}
SeqsUpTo(S, n) == UNION {[1..m -> S] : m \in 0..n}

NoBond == [atoms_index1 |-> <<>>, atoms_index2 |-> <<>>,
           atoms_index3 |-> <<>>, atoms_index4 |-> <<>>,
           species_index1 |-> <<>>, species_index2 |-> <<>>,
           widths |-> <<>>, orders |-> <<>>, styles |-> <<>>]

(***************************************************************************)
(* build_bondlists on the rows of the neighbour search.                    *)
(***************************************************************************)
BuildBondlists ==
    /\ pc = "build_bondlists"
    /\ bondlists' = build_bondlists(nl)
    /\ pc' = "calc_bond_data"
    /\ UNCHANGED <<speciesarray, nl, bondsetting, ib, bond>>
    /\ UNCHANGED nonBondVars

(***************************************************************************)
(* calc_bond_data, lines 783-795: the arrays before any rule is applied.   *)
(***************************************************************************)
CalcBondInit ==
    /\ pc = "calc_bond_data"
    /\ IF Len(bondlists) = 0
       THEN bond' = NoBond /\ pc' = "return"
       ELSE /\ bond' =
                 [atoms_index1 |-> [k \in DOMAIN bondlists |-> bondlists[k][1]],
                  atoms_index2 |-> [k \in DOMAIN bondlists |-> bondlists[k][2]],
                  atoms_index3 |->
                      Roll([k \in DOMAIN bondlists |-> bondlists[k][1]]),
                  atoms_index4 |->
                      Roll([k \in DOMAIN bondlists |-> bondlists[k][2]]),
                  species_index1 |-> [k \in DOMAIN bondlists |-> 0],
                  species_index2 |-> [k \in DOMAIN bondlists |-> 0],
                  widths |-> [k \in DOMAIN bondlists |-> 1],
                  orders |-> [k \in DOMAIN bondlists |-> 0],
                  styles |-> [k \in DOMAIN bondlists |-> 0]]
            /\ pc' = "for"
    /\ ib' = 0
    /\ UNCHANGED <<speciesarray, nl, bondlists, bondsetting>>
    /\ UNCHANGED nonBondVars

(***************************************************************************)
(* calc_bond_data, lines 805-817: one pass of  for b in bondsetting.       *)
(***************************************************************************)
ApplyRule ==
    /\ pc = "for"
    /\ ib < Len(bondsetting)
    /\ LET b == bondsetting[ib + 1]
           ind == [k \in DOMAIN bondlists |->
                      Matches(b, speciesarray, bondlists[k])]
           second == IF b.order > 1
                     THEN secondBond(b, speciesarray, bond.atoms_index3,
                                     bond.atoms_index4, bondlists)
                     ELSE <<bond.atoms_index3, bond.atoms_index4>>
       IN bond' = [bond EXCEPT
                     !.orders = Assign(@, ind, b.order),
                     !.styles = Assign(@, ind, StyleInt(b.style)),
                     !.widths = Assign(@, ind, b.width),
                     !.species_index1 =
                         Assign(@, ind, string2Number(b.species1)),
                     !.species_index2 =
                         Assign(@, ind, string2Number(b.species2)),
                     !.atoms_index3 = second[1],
                     !.atoms_index4 = second[2]]
    /\ ib' = ib + 1
    /\ pc' = "for"
    /\ UNCHANGED <<speciesarray, nl, bondlists, bondsetting>>
    /\ UNCHANGED nonBondVars

\* lines 818-834: the loop is over and datas is returned
CalcBondReturn ==
    /\ pc = "for"
    /\ ib = Len(bondsetting)
    /\ pc' = "return"
    /\ UNCHANGED bondVars
    /\ UNCHANGED nonBondVars

BondInit ==
    /\ pc = "build_bondlists"
    /\ speciesarray \in SpeciesArrays
    /\ nl \in SeqsUpTo(RowSet, MaxBonds)
    /\ bondsetting \in SeqsUpTo(RuleSet, MaxRules)
    /\ bondlists = <<>>
    /\ ib = 0
    /\ bond = NoBond
    /\ positions = {}
    /\ cell = <<0, 0, 0>>
    /\ resolution = 0
    /\ minRadius = 0
    /\ collection = <<>>
    /\ meshgrids = <<>>
    /\ distances = <<>>
    /\ imax = 0
    /\ centers = <<>>
    /\ radii = <<>>
    /\ species_index = <<>>
    /\ found = NoSpheres
    /\ filtered = NoSpheres
    /\ UpdateIdle
    /\ CallIdle
    /\ GnIdle
    /\ InstallIdle
    /\ ObjectIdle

BondNext ==
    \/ BuildBondlists
    \/ CalcBondInit
    \/ ApplyRule
    \/ CalcBondReturn

BondSpec == BondInit /\ [][BondNext]_vars


(***************************************************************************)
(* Claims on the bond pipeline.                                            *)
(***************************************************************************)
SharesAtom(c, r) == {c[1], c[2]} \cap {r[1], r[2]} # {}
SamePair(c, r) == c[1] = r[1] /\ c[2] = r[2]
\* the rows of the whole candidate list that can serve the bond row r
References(r) ==
    {n \in DOMAIN bondlists :
        SharesAtom(bondlists[n], r) /\ ~SamePair(bondlists[n], r)}
\* positions in the candidate list of the rows matching rule b
MatchingRows(b) ==
    {k \in DOMAIN bondlists :
        /\ speciesarray[bondlists[k][1] + 1] = b.species1
        /\ speciesarray[bondlists[k][2] + 1] = b.species2}
\* the i-th bond matching rule b, in list order
NthMatching(b, i) ==
    CHOOSE k \in MatchingRows(b) : Rank(k, MatchingRows(b)) = i

\* C8: when a rule of order > 1 is applied, the reference pair secondBond
\* selects for the i-th bond (p, q) matching the rule is the pair of
\* endpoints of the first row of the whole candidate list that shares an
\* atom with (p, q) and is not a row with the same ordered pair; the
\* fallback (0, 1) is selected exactly when the list holds no such row.
C8_PlaneReference ==
    [][pc = "for" /\ ib' = ib + 1 /\ bondsetting[ib + 1].order > 1 =>
         LET b == bondsetting[ib + 1]
         IN \A i \in 1..Cardinality(MatchingRows(b)) :
               LET refs == References(bondlists[NthMatching(b, i)])
                   sel == <<bond'.atoms_index3[i], bond'.atoms_index4[i]>>
               IN /\ refs # {} =>
                        sel = <<bondlists[SetMin(refs)][1],
                                bondlists[SetMin(refs)][2]>>
                  /\ refs = {} => sel = <<0, 1>>]_vars

\* a rule of order > 1 has been applied and one of its bonds had two
\* possible reference rows, the first of which is not the pair (0, 1)
C8_Witness ==
    /\ pc = "for"
    /\ ib >= 1
    /\ bondsetting[ib].order > 1
    /\ \E i \in 1..Cardinality(MatchingRows(bondsetting[ib])) :
          LET refs == References(bondlists[NthMatching(bondsetting[ib], i)])
          IN /\ Cardinality(refs) >= 2
             /\ bond.atoms_index3[i] = bondlists[SetMin(refs)][1]
             /\ bond.atoms_index4[i] = bondlists[SetMin(refs)][2]
             /\ <<bond.atoms_index3[i], bond.atoms_index4[i]>> # <<0, 1>>

\* the rules matching row k, by position in the rule list
MatchingRules(k) ==
    {r \in DOMAIN bondsetting :
        /\ speciesarray[bondlists[k][1] + 1] = bondsetting[r].species1
        /\ speciesarray[bondlists[k][2] + 1] = bondsetting[r].species2}
HasFieldsOf(k, b) ==
    /\ bond.orders[k] = b.order
    /\ bond.styles[k] = StyleInt(b.style)
    /\ bond.widths[k] = b.width
    /\ bond.species_index1[k] = string2Number(b.species1)
    /\ bond.species_index2[k] = string2Number(b.species2)
Returned == pc = "return" /\ Len(bondlists) > 0

Negated(S) == [x \in 1..3 |-> -S[x]]

\* C10 (as claimed): the list returned by build_bondlists never holds both
\* (i, j, s) and (j, i, -s), and never holds the same row twice.
C10_EachBondOnce ==
    pc = "calc_bond_data" =>
        \A m, n \in DOMAIN bondlists :
            m # n =>
               /\ bondlists[m] # bondlists[n]
               /\ bondlists[m] # Row(bondlists[n][2], bondlists[n][1],
                                     Negated(bondlists[n][3]))


(***************************************************************************)
(* base/object.py: the position setters of ObjectGN, and Bonds.set_offsets.*)
(* A call either returns or raises; its outcome is the exception (with the *)
(* counts its message names) and the mesh after the call.  The setters     *)
(* write the data of the first shape key; the vertices of the mesh are     *)
(* left to the host.                                                       *)
(***************************************************************************)
Return(o) == [raised |-> NoRaise, mesh |-> o]
Raise(type, counts, o) ==
    [raised |-> [type |-> type, counts |-> counts], mesh |-> o]

\* local2global(positions, matrix_world, reversed = True): a position
\* expressed in the frame of the object
local2global(p) == <<"local", p>>

\* BaseObject.shape_keys: the basis key is added to a mesh that has
\* vertices and no shape key
shape_keys(o) ==
    IF o.key_blocks = <<>> /\ Len(o.co) > 0
    THEN [o EXCEPT !.key_blocks = <<o.co>>]
    ELSE o

set_positions(o, array) ==
    IF Len(array) # Len(o.co)
    THEN Raise("ValueError", <<Len(array), Len(o.co)>>, o)
    ELSE IF Len(o.co) = 0 THEN Return(o)
    ELSE Return([shape_keys(o) EXCEPT
                   !.key_blocks[1] =
                       [k \in DOMAIN array |-> local2global(array[k])]])

set_local_positions(o, local_positions) ==
    IF Len(local_positions) # Len(o.co)
    THEN Raise("ValueError", <<Len(local_positions), Len(o.co)>>, o)
    ELSE IF Len(o.co) = 0 THEN Return(o)
    ELSE Return([shape_keys(o) EXCEPT !.key_blocks[1] = local_positions])

\* Bonds.set_offsets reads obj_o.data.shape_keys.key_blocks[0] without
\* adding a key: on a mesh without shape key this is an attribute of None
set_offsets(o, offsets) ==
    IF Len(offsets) # Len(o.co)
    THEN Raise("ValueError", <<Len(offsets), Len(o.co)>>, o)
    ELSE IF o.key_blocks = <<>> THEN Raise("AttributeError", <<>>, o)
    ELSE Return([o EXCEPT !.key_blocks[1] = offsets])

\* ObjectGN.set_obj_frames with frames of one position per vertex: one
\* shape key per frame, none for an empty mesh
set_obj_frames(o, fr) ==
    IF Len(fr) = 0 THEN o
    ELSE IF Len(fr[1]) = 0 THEN o
    ELSE [o EXCEPT !.key_blocks =
            [i \in 1..SetMax({Len(fr), Len(o.key_blocks)}) |->
                IF i <= Len(fr) THEN fr[i] ELSE o.key_blocks[i]]]

(***************************************************************************)
(* Bonds.update, lines 459-500, and Bonds.set_arrays, lines 525-545.       *)
(***************************************************************************)
MaxFrames == 2

\* build_bondlists with its cutoff argument, lines 749-773
build_bondlists_cutoff(cut, rows) ==
    IF Cardinality(cut) = 0 THEN Dict ELSE Ndarray(build_bondlists(rows))

\* the order of np.unique(axis = 0) on rows (i, j, S)
Flat(row) == <<row[1], row[2], row[3][1], row[3][2], row[3][3]>>
RowLess(r, t) ==
    \E k \in 1..5 :
        /\ Flat(r)[k] < Flat(t)[k]
        /\ \A m \in 1..(k - 1) : Flat(r)[m] = Flat(t)[m]
\* np.unique(rows, axis = 0): the distinct rows, sorted
UniqueRows(rows) ==
    LET S == Range(rows)
    IN [k \in 1..Cardinality(S) |->
          CHOOSE r \in S : Cardinality({t \in S : RowLess(t, r)}) = k - 1]

\* lines 477-492: one pass of  for f in range(nframe).  np.append of two
\* zero-dimensional arrays (two dicts) raises ValueError
UpdateFrame ==
    /\ pc = "update"
    /\ f < Len(frames)
    /\ LET bl == build_bondlists_cutoff(cutoff, frames[f + 1])
       IN /\ bondlist' = bl
          /\ IF f = 0
             THEN merged' = bl /\ pc' = "update"
             ELSE IF merged.type = "ndarray" /\ bl.type = "ndarray"
                  THEN /\ merged' = Ndarray(Concat(merged.rows, bl.rows))
                       /\ pc' = "update"
                  ELSE /\ pc' = "ValueError"
                       /\ UNCHANGED merged
    /\ f' = f + 1
    /\ UNCHANGED <<frames, cutoff, attributes>>
    /\ UNCHANGED nonUpdateVars

\* lines 493-496: np.unique(bondlists, axis = 0) raises AxisError (a
\* ValueError) on a dict; calc_bond_data is then called with bondlist, the
\* list of the last frame
UpdateMerge ==
    /\ pc = "update"
    /\ f = Len(frames)
    /\ IF merged.type = "ndarray"
       THEN /\ merged' = Ndarray(UniqueRows(merged.rows))
            /\ bondlists' = bondlist.rows
            /\ pc' = "calc_bond_data"
       ELSE /\ pc' = "ValueError"
            /\ UNCHANGED <<merged, bondlists>>
    /\ UNCHANGED <<frames, cutoff, f, bondlist, attributes>>
    /\ UNCHANGED <<speciesarray, nl, bondsetting, ib, bond>>
    /\ UNCHANGED <<cavityVars, callVars, objectVars, gnVars, installVars>>

\* calc_bond_data, lines 797-803: the centre of every bond in every frame
\* and the offset of every bond.  A centre is a function of the frame and
\* of the row; an offset is the image shift, in units of the cell edges.
Centers(nframe, rows) ==
    [t \in 1..nframe |-> [k \in DOMAIN rows |-> <<t, rows[k]>>]]
Offsets(rows) == [k \in DOMAIN rows |-> rows[k][3]]

\* the attributes set from the arrays of calc_bond_data
Stored(arrays, show) ==
    [atoms_index1 |-> arrays.atoms_index1,
     atoms_index2 |-> arrays.atoms_index2,
     atoms_index3 |-> arrays.atoms_index3,
     atoms_index4 |-> arrays.atoms_index4,
     species_index1 |-> arrays.species_index1,
     species_index2 |-> arrays.species_index2,
     order |-> arrays.orders,
     style |-> arrays.styles,
     show |-> show]

\* Bonds.build_object, lines 102-162: new meshes for the centres and the
\* offsets; set_frames gives shape keys to the mesh of the centres only
build_object(arrays, cs, offsets) ==
    [raised |-> NoRaise,
     attributes |-> Stored(arrays, [k \in DOMAIN cs[1] |-> 1]),
     obj |-> set_obj_frames(Mesh(cs[1], <<>>), cs),
     obj_o |-> Mesh(offsets, <<>>)]

\* Bonds.set_arrays, lines 525-545.  centers has the shape (nframe, nb, 3),
\* so len(arrays['centers']) is nframe; when it equals the number of
\* vertices the positions, offsets and attributes are set in place, and
\* the reshape in set_positions raises ValueError unless nb = 1.
set_arrays(arrays, cs, offsets, att, o, oo) ==
    IF Len(cs) = 0
    THEN [raised |-> NoRaise, attributes |-> att, obj |-> o, obj_o |-> oo]
    ELSE IF Len(cs) = Len(att.show)
         THEN LET p == IF Len(cs[1]) # 1
                       THEN Raise("ValueError", <<>>, o)
                       ELSE set_positions(o, [t \in DOMAIN cs |-> cs[t][1]])
                  q == set_offsets(oo, offsets)
              IN IF p.raised # NoRaise
                 THEN [raised |-> p.raised, attributes |-> att,
                       obj |-> p.mesh, obj_o |-> oo]
                 ELSE IF q.raised # NoRaise
                      THEN [raised |-> q.raised, attributes |-> att,
                            obj |-> p.mesh, obj_o |-> oo]
                      ELSE [raised |-> NoRaise,
                            attributes |-> Stored(arrays, att.show),
                            obj |-> p.mesh, obj_o |-> q.mesh]
         ELSE build_object(arrays, cs, offsets)

\* lines 498-499: the bond data are written to the bond object;
\* default_bond_datas, returned for an empty list, has no centre
UpdateSetArrays ==
    /\ pc = "return"
    /\ LET cs == IF bond = NoBond THEN <<>>
                 ELSE Centers(Len(frames), bondlists)
           r == set_arrays(bond, cs, Offsets(bondlists), attributes,
                           obj, obj_o)
       IN /\ attributes' = r.attributes
          /\ obj' = r.obj
          /\ obj_o' = r.obj_o
          /\ raised' = r.raised
          /\ pc' = IF r.raised = NoRaise THEN "updated" ELSE r.raised.type
    /\ UNCHANGED <<frames, cutoff, f, bondlist, merged, call>>
    /\ UNCHANGED <<cavityVars, bondVars, callVars, gnVars, installVars>>

(***************************************************************************)
(* Inputs of an update: the rows the neighbour search finds in every       *)
(* frame, the cutoff mapping, the rules and the bond object left by an     *)
(* earlier update.                                                         *)
(***************************************************************************)
FrameRows == {<<>>, <<Row(0, 1, NoShift)>>, <<Row(1, 2, NoShift)>>,
              <<Row(1, 2, NoShift), Row(0, 1, NoShift)>>}
Cutoffs == {{}, {<<"C", "C">>, <<"C", "H">>}}
UpdateRules == {<<>>, <<Rule("C", "C", 2, "1", 2)>>}
\* the arrays of calc_bond_data for the single bond (0, 1) and no rule
OneBondArrays ==
    [atoms_index1 |-> <<0>>, atoms_index2 |-> <<1>>,
     atoms_index3 |-> <<0>>, atoms_index4 |-> <<1>>,
     species_index1 |-> <<0>>, species_index2 |-> <<0>>,
     widths |-> <<1>>, orders |-> <<0>>, styles |-> <<0>>]
\* the bond objects build_object leaves: without bond, and with the single
\* bond (0, 1) in one frame
NoBondObject == build_object(NoBond, <<<<>>>>, <<>>)
OneBondObject ==
    build_object(OneBondArrays, Centers(1, <<Row(0, 1, NoShift)>>),
                 Offsets(<<Row(0, 1, NoShift)>>))
OneBondAttributes == OneBondObject.attributes

UpdateInit ==
    /\ pc = "update"
    /\ frames \in UNION {[1..n -> FrameRows] : n \in 1..MaxFrames}
    /\ cutoff \in Cutoffs
    /\ f = 0
    /\ bondlist = Ndarray(<<>>)
    /\ merged = Ndarray(<<>>)
    /\ \E o \in {NoBondObject, OneBondObject} :
          /\ attributes = o.attributes
          /\ obj = o.obj
          /\ obj_o = o.obj_o
    /\ call = Call("none", <<>>)
    /\ raised = NoRaise
    /\ speciesarray \in {<<"C", "C", "C">>, <<"C", "H", "C">>}
    /\ bondsetting \in UpdateRules
    /\ nl = <<>>
    /\ bondlists = <<>>
    /\ ib = 0
    /\ bond = NoBond
    /\ positions = {}
    /\ cell = <<0, 0, 0>>
    /\ resolution = 0
    /\ minRadius = 0
    /\ collection = <<>>
    /\ meshgrids = <<>>
    /\ distances = <<>>
    /\ imax = 0
    /\ centers = <<>>
    /\ radii = <<>>
    /\ species_index = <<>>
    /\ found = NoSpheres
    /\ filtered = NoSpheres
    /\ CallIdle
    /\ GnIdle
    /\ InstallIdle

UpdateNext ==
    \/ UpdateFrame
    \/ UpdateMerge
    \/ CalcBondInit
    \/ ApplyRule
    \/ CalcBondReturn
    \/ UpdateSetArrays

UpdateSpec == UpdateInit /\ [][UpdateNext]_vars

(***************************************************************************)
(* Claims on Bonds.update.                                                 *)
(***************************************************************************)
AllFrameRows == UNION {Range(frames[k]) : k \in DOMAIN frames}
Pairs(att) ==
    {<<att.atoms_index1[k], att.atoms_index2[k]>> : k \in DOMAIN att.show}

\* C11 (as claimed): the bond list Bonds.update passes to calc_bond_data is
\* the de-duplicated union of the lists built for all frames, and the bonds
\* written to the bond object are the bonds of that union, so a bond found
\* only in a frame other than the last is in the result.
C11_MergedListUsed ==
    /\ pc \in {"calc_bond_data", "for", "return", "updated"} =>
          /\ Range(bondlists) = AllFrameRows
          /\ Len(bondlists) = Cardinality(AllFrameRows)
    /\ pc = "updated" /\ AllFrameRows # {} =>
          Pairs(attributes) = {<<r[1], r[2]>> : r \in AllFrameRows}


(***************************************************************************)
(* Several build_cavity calls.  A Cavity object keeps its bucket           *)
(* collection (self.setting) from one call to the next; a new object       *)
(* starts with an empty one.                                               *)
(***************************************************************************)
MaxCalls == 3

Input(atoms, c, res, m) ==
    [positions |-> atoms, cell |-> c, resolution |-> res, minRadius |-> m]
\* two structures in which one sphere survives: its refined radius is 1 in
\* the first and sqrt(12) - 2 in the second
RepeatInputs ==
    {Input({<<0, 0, 0>>, <<5, 5, 5>>}, <<20, 20, 20>>, 10, 0),
     Input({<<0, 0, 0>>, <<10, 10, 10>>}, <<40, 40, 40>>, 20, 0)}
CurrentInput == Input(positions, cell, resolution, minRadius)
\* the dictionary build_cavity returns, with the call it came from
Result ==
    [object |-> object, input |-> CurrentInput, centers |-> centers,
     radii |-> radii, species_index |-> species_index,
     collection |-> collection]

\* build_cavity has returned and is called again, on the same object or
\* on a new one
NextCall ==
    /\ pc = "done"
    /\ Len(returned) < MaxCalls - 1
    /\ returned' = Append(returned, Result)
    /\ \E in \in RepeatInputs :
          /\ positions' = in.positions
          /\ cell' = in.cell
          /\ resolution' = in.resolution
          /\ minRadius' = in.minRadius
    /\ \/ object' = object /\ collection' = collection
       \/ object' = object + 1 /\ collection' = <<>>
    /\ pc' = "build_cavity"
    /\ UNCHANGED <<meshgrids, distances, imax, centers, radii, species_index,
                   found, filtered>>
    /\ UNCHANGED <<bondVars, updateVars, objectVars, gnVars, installVars>>

RepeatInit ==
    /\ pc = "build_cavity"
    /\ \E in \in RepeatInputs :
          /\ positions = in.positions
          /\ cell = in.cell
          /\ resolution = in.resolution
          /\ minRadius = in.minRadius
    /\ collection = <<>>
    /\ meshgrids = <<>>
    /\ distances = <<>>
    /\ imax = 0
    /\ centers = <<>>
    /\ radii = <<>>
    /\ species_index = <<>>
    /\ found = NoSpheres
    /\ filtered = NoSpheres
    /\ speciesarray = <<>>
    /\ nl = <<>>
    /\ bondlists = <<>>
    /\ bondsetting = <<>>
    /\ ib = 0
    /\ bond = <<>>
    /\ UpdateIdle
    /\ CallIdle
    /\ GnIdle
    /\ InstallIdle
    /\ ObjectIdle

RepeatNext ==
    \/ CavityNext
    \/ NextCall

RepeatSpec == RepeatInit /\ [][RepeatNext]_vars

(***************************************************************************)
(* Claims on repeated build_cavity calls.                                  *)
(***************************************************************************)
\* C12 (as claimed): when build_cavity is called a second time on the same
\* object with the same atoms, cell, resolution and minRadius, every sphere
\* gets the same bucket as in the first call and no bucket is created: the
\* collection after the second call is the collection after the first.
C12_RepeatableBuckets ==
    pc = "done" /\ returned # <<>> /\ Last(returned).object = object
                /\ Last(returned).input = CurrentInput =>
        /\ species_index = Last(returned).species_index
        /\ collection = Last(returned).collection

\* C13 (as claimed): the centres, radii and bucket ids build_cavity returns
\* for given atoms, cell, resolution and minRadius are the same whatever
\* calls were made before on the same object.
C13_Stateless ==
    pc = "done" =>
        \A k \in DOMAIN returned :
            returned[k].input = CurrentInput =>
                /\ returned[k].centers = centers
                /\ returned[k].radii = radii
                /\ returned[k].species_index = species_index


(***************************************************************************)
(* Claims on empty inputs and on the value domains.                        *)
(***************************************************************************)
\* C14 (as claimed): build_cavity on a structure without atoms does not
\* raise and returns an empty result: no centre, no radius and no
\* species_index entry.
C14_ZeroAtomsEmptyResult ==
    positions = {} =>
        /\ pc # "ValueError"
        /\ pc = "done" =>
              centers = <<>> /\ radii = <<>> /\ species_index = <<>>

\* C15 (as claimed): with an empty cutoff mapping Bonds.update does not
\* raise: the value build_bondlists returns passes through the merge and
\* calc_bond_data, and the update ends with an empty bond result that
\* leaves the bond object as it was.
C15_EmptyCutoffEmptyResult ==
    cutoff = {} =>
        /\ pc # "ValueError"
        /\ pc = "updated" =>
              bond = NoBond /\ attributes \in {NoAttributes, OneBondAttributes}

\* C16 (as claimed): build_grid makes floor(length_i / resolution) samples
\* along axis i, at the fractions k / n_i (k = 0..n_i - 1) of the cell
\* edge, and at least one sample along every axis also when the
\* resolution is larger than the cell, so the grid is never empty.
C16_GridNeverEmpty ==
    pc = "find_cage_spheres" =>
        LET n == [i \in 1..3 |-> cell[i] \div resolution]
        IN /\ \A i \in 1..3 : n[i] >= 1
           /\ Len(meshgrids) = n[1] * n[2] * n[3]
           /\ Range(meshgrids) =
                 {<<(a * cell[1]) \div n[1], (b * cell[2]) \div n[2],
                    (c * cell[3]) \div n[3]>> :
                     a \in 0..(n[1] - 1), b \in 0..(n[2] - 1),
                     c \in 0..(n[3] - 1)}

\* C18 (as claimed): every bond record calc_bond_data returns has an order
\* in {1, 2, 3} and a style in {0, 1, 2}, also when the species pair of
\* the bond matches no rule.
C18_OrderAndStyleDomain ==
    Returned =>
        \A k \in DOMAIN bondlists :
            bond.orders[k] \in {1, 2, 3} /\ bond.styles[k] \in {0, 1, 2}


(***************************************************************************)
(* Claims on the order of the extracted radii and on empty sphere lists.   *)
(***************************************************************************)
Extracted == IF pc \in {"while", "ValueError"} THEN radii ELSE found.radii

\* C19 (as claimed): the radii find_cage_spheres returns are strictly
\* decreasing in extraction order, also when several grid points share
\* the same nearest-atom distance.
C19_StrictlyDecreasing ==
    \A a, b \in DOMAIN Extracted :
        a < b => Extracted[b].sq < Extracted[a].sq

\* C19 (amended): the radii find_cage_spheres extracts are non-increasing
\* in extraction order: each extracted maximum is <= the one extracted
\* before it, and equal to it when grid points tie on the distance.
C19_NonIncreasing ==
    \A a, b \in DOMAIN Extracted :
        a < b => Extracted[b].sq <= Extracted[a].sq

\* extraction returned three spheres or more: two consecutive ones with
\* the same radius and a later one that is strictly smaller
C19_Witness ==
    /\ pc = "check_sphere_boundary"
    /\ \E a \in DOMAIN found.radii :
          /\ a + 2 \in DOMAIN found.radii
          /\ found.radii[a + 1].sq = found.radii[a].sq
          /\ found.radii[a + 2].sq < found.radii[a + 1].sq

\* C20: when extraction finds no sphere, or the boundary filter discards
\* every sphere, each later step of build_cavity runs on the empty list
\* without raising and the call ends with no centre, no radius (scale), no
\* species_index (and show) entry and the collection of buckets it
\* started with.
C20_NoSphereEmptyResult ==
    [][/\ pc = "check_sphere_boundary" /\ found.centers = <<>> =>
             filtered' = NoSpheres /\ pc' = "refine_spheres"
       /\ pc = "refine_spheres" /\ filtered.centers = <<>> =>
             centers' = <<>> /\ radii' = <<>> /\ pc' = "classify"
       /\ pc = "classify" /\ radii = <<>> =>
             /\ pc' = "done"
             /\ centers' = <<>> /\ radii' = <<>> /\ species_index' = <<>>
             /\ collection' = collection]_vars

\* build_cavity returned after the boundary filter discarded every sphere
\* extraction had found, on an object that already had buckets
C20_Witness ==
    /\ pc = "done"
    /\ found.centers # <<>>
    /\ filtered.centers = <<>>
    /\ species_index = <<>>
    /\ collection # <<>>


(***************************************************************************)
(* Calls of the position setters on an object with its offset mesh.        *)
(***************************************************************************)
MaxVertices == 2
Coordinates == {<<0, 0, 0>>, <<10, 0, 0>>}
Arrays == SeqsUpTo(Coordinates, MaxVertices)
\* the meshes of an object of n vertices: with the basis shape key or, as
\* build_object leaves the offset mesh, without shape key
Meshes(n) ==
    {Mesh(co, keys) : co \in [1..n -> Coordinates],
                      keys \in {<<>>} \cup {<<c>> : c \in [1..n -> Coordinates]}}
BuiltMeshes(n) ==
    {m \in Meshes(n) : m.key_blocks = <<>> \/ (n > 0 /\ m.key_blocks = <<m.co>>)}

SetPositions ==
    /\ pc = "object"
    /\ \E array \in Arrays :
          /\ call' = Call("set_positions", array)
          /\ obj' = set_positions(obj, array).mesh
          /\ raised' = set_positions(obj, array).raised
    /\ UNCHANGED <<pc, obj_o>>
    /\ UNCHANGED <<cavityVars, bondVars, updateVars, callVars, gnVars,
                   installVars>>

SetLocalPositions ==
    /\ pc = "object"
    /\ \E array \in Arrays :
          /\ call' = Call("set_local_positions", array)
          /\ obj' = set_local_positions(obj, array).mesh
          /\ raised' = set_local_positions(obj, array).raised
    /\ UNCHANGED <<pc, obj_o>>
    /\ UNCHANGED <<cavityVars, bondVars, updateVars, callVars, gnVars,
                   installVars>>

SetOffsets ==
    /\ pc = "object"
    /\ \E array \in Arrays :
          /\ call' = Call("set_offsets", array)
          /\ obj_o' = set_offsets(obj_o, array).mesh
          /\ raised' = set_offsets(obj_o, array).raised
    /\ UNCHANGED <<pc, obj>>
    /\ UNCHANGED <<cavityVars, bondVars, updateVars, callVars, gnVars,
                   installVars>>

ObjectInit ==
    /\ pc = "object"
    /\ \E n \in 0..MaxVertices :
          /\ obj \in BuiltMeshes(n)
          /\ obj_o \in {m \in BuiltMeshes(n) :
                          \A k \in 1..n : m.co[k] = <<0, 0, 0>>}
    /\ call = Call("none", <<>>)
    /\ raised = NoRaise
    /\ positions = {}
    /\ cell = <<0, 0, 0>>
    /\ resolution = 0
    /\ minRadius = 0
    /\ collection = <<>>
    /\ meshgrids = <<>>
    /\ distances = <<>>
    /\ imax = 0
    /\ centers = <<>>
    /\ radii = <<>>
    /\ species_index = <<>>
    /\ found = NoSpheres
    /\ filtered = NoSpheres
    /\ speciesarray = <<>>
    /\ nl = <<>>
    /\ bondlists = <<>>
    /\ bondsetting = <<>>
    /\ ib = 0
    /\ bond = NoBond
    /\ UpdateIdle
    /\ CallIdle
    /\ GnIdle
    /\ InstallIdle

ObjectNext ==
    \/ SetPositions
    \/ SetLocalPositions
    \/ SetOffsets

ObjectSpec == ObjectInit /\ [][ObjectNext]_vars

(***************************************************************************)
(* Claims on the position setters.                                         *)
(***************************************************************************)
\* the mesh the call is made on
Target == IF call'.method = "set_offsets" THEN obj_o ELSE obj

\* C17 (as claimed): set_positions, set_local_positions and set_offsets
\* called with an array whose length differs from the number of vertices
\* raise ValueError naming both counts and leave the vertices and the
\* shape-key data as they were; called with an empty array on a mesh
\* without vertices they return and create no shape key.
C17_MismatchRejected ==
    [][call' # call =>
         /\ Len(call'.array) # Len(Target.co) =>
               /\ raised' = [type |-> "ValueError",
                             counts |-> <<Len(call'.array), Len(Target.co)>>]
               /\ obj' = obj /\ obj_o' = obj_o
         /\ Len(call'.array) = 0 /\ Len(Target.co) = 0 =>
               /\ raised' = NoRaise
               /\ obj' = obj /\ obj_o' = obj_o]_vars

(***************************************************************************)
(* Cavity.set_arrays, lines 417-435, called by Cavity.draw on the arrays   *)
(* of build_cavity.  The cavity object is the mesh obj and the per-vertex  *)
(* attributes species_index, scale and show.                               *)
(***************************************************************************)
\* the variables no call on an object uses
CavityIdle ==
    /\ positions = {}
    /\ cell = <<0, 0, 0>>
    /\ resolution = 0
    /\ minRadius = 0
    /\ collection = <<>>
    /\ meshgrids = <<>>
    /\ distances = <<>>
    /\ imax = 0
    /\ centers = <<>>
    /\ radii = <<>>
    /\ species_index = <<>>
    /\ found = NoSpheres
    /\ filtered = NoSpheres
BondIdle ==
    /\ speciesarray = <<>>
    /\ nl = <<>>
    /\ bondlists = <<>>
    /\ bondsetting = <<>>
    /\ ib = 0
    /\ bond = NoBond

\* python values handed to a parameter that is iterated
PyInt(n) == [type |-> "int", value |-> n]
PyList(s) == [type |-> "list", value |-> s]

Zeros(count) == [k \in 1..count |-> <<0, 0, 0>>]

\* BaseObject.add_vertices_bmesh: count vertices at the origin are added;
\* the shape-key layers of the mesh get the same vertices
add_vertices_bmesh(o, count) ==
    Return([co |-> o.co \o Zeros(count),
            key_blocks |-> [i \in DOMAIN o.key_blocks |->
                              o.key_blocks[i] \o Zeros(count)]])

\* BaseObject.delete_vertices_bmesh(index): the vertices whose (0-based)
\* indices are listed are deleted; iterating an int raises TypeError
delete_vertices_bmesh(o, index) ==
    IF index.type = "int" THEN Raise("TypeError", <<>>, o)
    ELSE LET keep == [k \in DOMAIN o.co |-> (k - 1) \notin Range(index.value)]
         IN Return([co |-> MaskSeq(o.co, keep),
                    key_blocks |-> [i \in DOMAIN o.key_blocks |->
                                      MaskSeq(o.key_blocks[i], keep)]])

\* the attributes set_arrays writes
CavityAttributes(species, scale, show) ==
    [species_index |-> species, scale |-> scale, show |-> show]

\* Cavity.set_arrays: the result is the exception raised, the mesh and the
\* attributes after the call
cavity_set_arrays(arrays, att, o) ==
    LET dnvert == Len(arrays.species_index) - Len(att.species_index)
        sized == IF dnvert > 0 THEN add_vertices_bmesh(o, dnvert)
                 ELSE IF dnvert < 0
                      THEN delete_vertices_bmesh(o, PyInt(-dnvert))
                      ELSE Return(o)
    IN IF sized.raised # NoRaise
       THEN [raised |-> sized.raised, obj |-> sized.mesh, attributes |-> att]
       ELSE [raised |-> NoRaise,
             obj |-> set_obj_frames(sized.mesh, arrays.centers),
             attributes |-> CavityAttributes(arrays.species_index,
                                             arrays.scale, arrays.show)]

\* the arrays build_cavity returns for n spheres: one frame of centres,
\* the bucket ids, the radii as scale, and show = 1
CavityNames == {48, 49}
CavityScales == {10, 20}
CavityArrays(n) ==
    {[centers |-> <<cs>>, species_index |-> sp, scale |-> sc,
      show |-> [k \in 1..n |-> 1]] :
        cs \in [1..n -> Coordinates], sp \in [1..n -> CavityNames],
        sc \in [1..n -> CavityScales]}

CavitySetArrays ==
    /\ pc = "draw"
    /\ \E n \in 0..MaxVertices : \E arrays \in CavityArrays(n) :
          LET r == cavity_set_arrays(arrays, attributes, obj)
          IN /\ call' = Call("set_arrays", arrays)
             /\ obj' = r.obj
             /\ attributes' = r.attributes
             /\ raised' = r.raised
    /\ UNCHANGED <<pc, obj_o, frames, cutoff, f, bondlist, merged>>
    /\ UNCHANGED <<cavityVars, bondVars, callVars, gnVars, installVars>>

\* the object as Cavity.build_object leaves it: the centres as vertices,
\* no shape key, the attributes of the data it was built from
DrawInit ==
    /\ pc = "draw"
    /\ \E n \in 0..MaxVertices : \E arrays \in CavityArrays(n) :
          /\ obj = Mesh(arrays.centers[1], <<>>)
          /\ attributes = CavityAttributes(arrays.species_index,
                                           arrays.scale, arrays.show)
    /\ obj_o = Mesh(<<>>, <<>>)
    /\ call = Call("none", <<>>)
    /\ raised = NoRaise
    /\ frames = <<>>
    /\ cutoff = {}
    /\ f = 0
    /\ bondlist = Ndarray(<<>>)
    /\ merged = Ndarray(<<>>)
    /\ CavityIdle
    /\ BondIdle
    /\ CallIdle
    /\ GnIdle
    /\ InstallIdle

DrawNext == CavitySetArrays

DrawSpec == DrawInit /\ [][DrawNext]_vars

(***************************************************************************)
(* Claims on Cavity.set_arrays.                                            *)
(***************************************************************************)
\* C21 (as claimed): every Cavity.set_arrays call, whether the number of
\* cavities grows, stays equal or shrinks, returns normally and leaves a
\* mesh of len(arrays['species_index']) vertices whose species_index,
\* scale and show attributes have that length.
C21_VertexCountConsistent ==
    [][pc = "draw" /\ call'.method = "set_arrays" =>
         LET n == Len(call'.array.species_index)
         IN /\ raised' = NoRaise
            /\ Len(obj'.co) = n
            /\ Len(attributes'.species_index) = n
            /\ Len(attributes'.scale) = n
            /\ Len(attributes'.show) = n]_vars

(***************************************************************************)
(* Claims on Bonds.set_arrays.                                             *)
(***************************************************************************)
\* the centres and the offsets Bonds.update hands to set_arrays
NewCenters == Centers(Len(frames), bondlists)
NewOffsets == Offsets(bondlists)

\* C22 (as claimed): Bonds.set_arrays branches on the number of bonds: it
\* returns without change only for data without bonds, updates the object
\* in place (same vertices, new positions, offsets and attributes) exactly
\* when the new data has as many bonds as the object has vertices, and
\* rebuilds the object otherwise; when it returns, the object has one
\* vertex per bond of the new data.
C22_BranchOnBondCount ==
    [][pc = "return" =>
         LET nb == Len(bondlists)
         IN /\ raised' = NoRaise
            /\ nb = 0 =>
                  obj' = obj /\ obj_o' = obj_o /\ attributes' = attributes
            /\ nb > 0 /\ nb = Len(obj.co) =>
                  /\ obj'.co = obj.co
                  /\ obj_o'.co = obj_o.co
                  /\ attributes' = Stored(bond, attributes.show)
            /\ nb > 0 /\ nb # Len(obj.co) =>
                  /\ obj' = build_object(bond, NewCenters, NewOffsets).obj
                  /\ obj_o' = build_object(bond, NewCenters, NewOffsets).obj_o
            /\ nb > 0 => Len(obj'.co) = nb /\ Len(attributes'.show) = nb]_vars

(***************************************************************************)
(* Claims on the rows in which calc_bond_data stores the plane references. *)
(***************************************************************************)
\* the rules of order > 1 that match row k
HighOrderRules(k) == {r \in MatchingRules(k) : bondsetting[r].order > 1}
\* the reference pair secondBond selects for the bond of row k
Selected(k) ==
    LET refs == References(bondlists[k])
    IN IF refs = {} THEN <<0, 1>>
       ELSE <<bondlists[SetMin(refs)][1], bondlists[SetMin(refs)][2]>>
\* the values atoms_index3 / atoms_index4 start with: np.roll of the
\* endpoints
Default(k) ==
    <<Roll([n \in DOMAIN bondlists |-> bondlists[n][1]])[k],
      Roll([n \in DOMAIN bondlists |-> bondlists[n][2]])[k]>>

\* C23 (as claimed): in the arrays calc_bond_data returns, the row of every
\* bond matching a rule of order > 1 holds the reference pair selected for
\* that bond, and the row of every other bond holds its default, the
\* endpoints of the previous row, wherever the high-order bonds stand in
\* the candidate list.
C23_ReferenceInOwnRow ==
    Returned =>
        \A k \in DOMAIN bondlists :
            <<bond.atoms_index3[k], bond.atoms_index4[k]>> =
                IF HighOrderRules(k) # {} THEN Selected(k) ELSE Default(k)

(***************************************************************************)
(* Claims on the buckets build_cavity creates.                             *)
(***************************************************************************)
\* the radius lies in the closed range of the bucket
InRange(r, cav) == RadiusGE(r, Unit * cav.min) /\ RadiusLE(r, Unit * cav.max)

\* C24 (as claimed): after build_cavity every returned sphere carries the
\* id of a bucket of the collection whose range contains its radius, and
\* no two buckets the call created have the same range, also for radii
\* that are whole numbers.
C24_EverySphereHasBucket ==
    [][pc = "classify" =>
         /\ \A i \in DOMAIN radii' :
               \E c \in DOMAIN collection' :
                  /\ species_index'[i] =
                         string2NumberOfName(collection'[c].name)
                  /\ InRange(radii'[i], collection'[c])
         /\ \A c, d \in (Len(collection) + 1)..Len(collection') :
               c # d =>
                  <<collection'[c].min, collection'[c].max>> #
                      <<collection'[d].min, collection'[d].max>>]_vars

\* C25 (as claimed): the row secondBond selects as the reference of a
\* high-order bond (p, q) is a row of another physical bond: its atom pair
\* is neither (p, q), under any periodic shift, nor the mirrored (q, p),
\* also when the candidate list holds both orientations of a pair.
C25_ReferenceIsAnotherBond ==
    [][pc = "for" /\ ib' = ib + 1 /\ bondsetting[ib + 1].order > 1 =>
         LET b == bondsetting[ib + 1]
         IN \A i \in 1..Cardinality(MatchingRows(b)) :
               LET r == bondlists[NthMatching(b, i)]
               IN References(r) # {} =>
                     {bond'.atoms_index3[i], bond'.atoms_index4[i]} #
                         {r[1], r[2]}]_vars

(***************************************************************************)
(* ObjectGN.get_gnodes, lines 259-264, and ObjectGN.set_obj_frames, lines  *)
(* 672-728, with the names and the keyframes of the shape keys.  The       *)
(* entry k of animation describes the shape key whose data is              *)
(* obj.key_blocks[k]; the key 'Basis_<name>' has the name 0 here and the   *)
(* key str(i) the name i.                                                  *)
(***************************************************************************)
MaxShapeKeys == 3
\* 'GeometryNodes_%s' % self.obj_name
GeometryNodes == "GeometryNodes_obj_name"
None == "None"

\* ObjectGN.build_geometry_node: obj.modifiers.new(name = name, ...)
build_geometry_node(mods) == Append(mods, GeometryNodes)

\* obj.modifiers.get(name)
modifiers_get(mods, name) ==
    IF \E k \in DOMAIN mods : mods[k] = name THEN name ELSE None

\* ObjectGN.get_gnodes: the value returned and the modifiers afterwards;
\* the local variable modifier is not assigned again after the build
get_gnodes(mods) ==
    LET modifier == modifiers_get(mods, GeometryNodes)
    IN IF modifier = None
       THEN [value |-> modifier, modifiers |-> build_geometry_node(mods)]
       ELSE [value |-> modifier, modifiers |-> mods]

GetGnodes ==
    /\ pc = "gn"
    /\ call' = Call("get_gnodes", <<>>)
    /\ gnodes' = get_gnodes(modifiers).value
    /\ modifiers' = get_gnodes(modifiers).modifiers
    /\ raised' = NoRaise
    /\ UNCHANGED <<pc, obj, obj_o, animation>>
    /\ UNCHANGED <<cavityVars, bondVars, updateVars, callVars, installVars>>

\* a shape key as obj.shape_key_add leaves it: no keyframe
ShapeKey(name) == [name |-> name, keyframes |-> {}]

\* add_keyframe_to_shape_key(sk, 'value', values, frames): the key gets
\* the value values[k] at the animation frame frames[k]
add_keyframe_to_shape_key(sk, values, at) ==
    [sk EXCEPT !.keyframes =
        {p \in @ : \A k \in DOMAIN at : p[1] # at[k]}
            \cup {<<at[k], values[k]>> : k \in DOMAIN at}]

HasKey(anim, name) == \E k \in DOMAIN anim : anim[k].name = name

\* the shape keys after set_obj_frames(name, obj, frames, frame_start):
\* the basis key and the keys str(i) are added when missing, and only a
\* key that is added is keyed
set_obj_frames_keys(anim, fr, frame_start) ==
    IF Len(fr) = 0 THEN anim
    ELSE IF Len(fr[1]) = 0 THEN anim
    ELSE LET nframe == Len(fr)
             base == IF HasKey(anim, 0) THEN anim
                     ELSE Append(anim, ShapeKey(0))
             F[i \in 0..(nframe - 1)] ==
                 IF i = 0 THEN base
                 ELSE IF HasKey(F[i-1], i) THEN F[i-1]
                 ELSE IF i # nframe - 1
                      THEN Append(F[i-1],
                               add_keyframe_to_shape_key(ShapeKey(i),
                                   <<0, 1, 0>>,
                                   <<frame_start + i - 1, frame_start + i,
                                     frame_start + i + 1>>))
                      ELSE Append(F[i-1],
                               add_keyframe_to_shape_key(ShapeKey(i),
                                   <<0, 1>>,
                                   <<frame_start + i - 1, frame_start + i>>))
         IN F[nframe - 1]

\* ObjectGN.get_nframe
get_nframe(o) == Len(o.key_blocks)

\* the frames handed to set_obj_frames: one array of positions per frame,
\* with one position per vertex of the mesh
FrameArrays(n) == {[k \in 1..n |-> c] : c \in Coordinates}
FramesFor(n) == SeqsUpTo(FrameArrays(n), MaxShapeKeys)
FrameStart == 0

SetObjFrames ==
    /\ pc = "gn"
    /\ \E fr \in FramesFor(Len(obj.co)) :
          /\ call' = Call("set_obj_frames", fr)
          /\ obj' = set_obj_frames(obj, fr)
          /\ animation' = set_obj_frames_keys(animation, fr, FrameStart)
    /\ raised' = NoRaise
    /\ UNCHANGED <<pc, obj_o, modifiers, gnodes>>
    /\ UNCHANGED <<cavityVars, bondVars, updateVars, callVars, installVars>>

\* an object with its vertices and no shape key; build_object gives it
\* the modifier, an object that was loaded may lack it
GnInit ==
    /\ pc = "gn"
    /\ \E n \in 0..MaxVertices : obj = Mesh(Zeros(n), <<>>)
    /\ obj_o = Mesh(<<>>, <<>>)
    /\ call = Call("none", <<>>)
    /\ raised = NoRaise
    /\ modifiers \in {<<>>, <<GeometryNodes>>}
    /\ gnodes = "unset"
    /\ animation = <<>>
    /\ CavityIdle
    /\ BondIdle
    /\ UpdateIdle
    /\ CallIdle
    /\ InstallIdle

GnNext ==
    \/ GetGnodes
    \/ SetObjFrames

GnSpec == GnInit /\ [][GnNext]_vars

(***************************************************************************)
(* Claims on get_gnodes and set_obj_frames.                                *)
(***************************************************************************)
\* C26 (as claimed): get_gnodes never returns None: when the modifier
\* GeometryNodes_<obj_name> is missing it builds it and returns the
\* modifier it built, and when the modifier exists it returns it and
\* builds nothing.
C26_GnodesNeverNone ==
    [][pc = "gn" /\ call'.method = "get_gnodes" =>
         /\ gnodes' # None
         /\ gnodes' = GeometryNodes
         /\ modifiers_get(modifiers, GeometryNodes) = None =>
               modifiers' = Append(modifiers, GeometryNodes)
         /\ modifiers_get(modifiers, GeometryNodes) # None =>
               modifiers' = modifiers]_vars

\* the names of the shape keys, in the order of key_blocks
KeyNames(anim) == [k \in DOMAIN anim |-> anim[k].name]

\* C27 (as claimed): a set_obj_frames call with F >= 1 non-empty frames
\* leaves exactly F shape keys, the basis key and the keys 1 .. F-1, and
\* get_nframe returns F, whatever earlier calls supplied; a call with no
\* frame or with an empty first frame changes nothing.
C27_FrameCountFollowsCall ==
    [][pc = "gn" /\ call'.method = "set_obj_frames" =>
         LET fr == call'.array
         IN IF Len(fr) = 0 \/ Len(fr[1]) = 0
            THEN obj' = obj /\ animation' = animation
            ELSE /\ get_nframe(obj') = Len(fr)
                 /\ KeyNames(animation') = [k \in 1..Len(fr) |-> k - 1]]_vars

\* the value of a shape key at an animation frame: the keyed value, held
\* constant before the first and after the last keyframe; 0, the value of
\* a new key, when it has no keyframe
ValueAt(sk, t) ==
    IF sk.keyframes = {} THEN 0
    ELSE LET times == {p[1] : p \in sk.keyframes}
             at == IF t < SetMin(times) THEN SetMin(times)
                   ELSE IF t > SetMax(times) THEN SetMax(times)
                   ELSE t
         IN (CHOOSE p \in sk.keyframes : p[1] = at)[2]

\* C28 (as claimed): after any sequence of set_obj_frames calls with the
\* same frame_start, the last of them with F frames, at every animation
\* frame frame_start + i (1 <= i <= F-1) the key named i has the value 1
\* and every other key except the basis has the value 0, also when the
\* last call supplies more frames than an earlier one.
C28_OneActiveFrame ==
    [][pc = "gn" /\ call'.method = "set_obj_frames"
                 /\ Len(call'.array) > 0 /\ Len(call'.array[1]) > 0 =>
         \A i \in 1..(Len(call'.array) - 1) :
            \A k \in DOMAIN animation' :
               animation'[k].name # 0 =>
                  ValueAt(animation'[k], FrameStart + i) =
                      IF animation'[k].name = i THEN 1 ELSE 0]_vars

(***************************************************************************)
(* install.py: install and uninstall in conda mode (use_pip false, no      *)
(* generate_env_file).  The tree holds the three paths the commands touch  *)
(* under blender_root:                                                     *)
(*   python      PY_PATH, factory_python_source                            *)
(*   old_python  PY_BACKUP_PATH, factory_python_target                     *)
(*   plugin      DEFAULT_PLUGIN_PATH, plugin_path_target                   *)
(* An entry is "absent", "factory" (the real directory of the python       *)
(* shipped with Blender), "conda" (a symlink to the conda prefix) or       *)
(* "batoms" (a real directory holding the copied plugin).  Blender, conda  *)
(* and the factory python are run as external processes; a run that fails  *)
(* raises and ends the command where it stands.                            *)
(***************************************************************************)
MaxRuns == 3
CleanTree == Tree("factory", "absent", "absent")

\* Path.exists, Path.is_symlink, Path.is_dir (symlinks followed)
exists(t, path) == t[path] # "absent"
is_symlink(t, path) == t[path] = "conda"
is_dir(t, path) == t[path] \in {"factory", "conda", "batoms"}
\* _is_empty_dir, lines 309-317: no child found, also for a missing path
is_empty_dir(t, path) == t[path] = "absent"

\* os.unlink, shutil.rmtree, os.symlink(conda_prefix, path),
\* shutil.copytree(plugin_path_source, path)
unlink(t, path) == [t EXCEPT ![path] = "absent"]
rmtreeKeep(t, path) == t
rmtree(t, path) == [t EXCEPT ![path] = "absent"]
symlink(t, path) == [t EXCEPT ![path] = "conda"]
copytree(t, path) == [t EXCEPT ![path] = "batoms"]
\* shutil.move(src, dst) onto a path that does not exist: a rename
moveNoBackup(t, src, dst) == [t EXCEPT ![src] = "absent"]
move(t, src, dst) == [t EXCEPT ![dst] = t[src], ![src] = "absent"]

Running == pc \in {"install", "restore", "restore_move", "rename", "symlink",
                   "plugin", "copytree", "enable", "uninstall", "backup",
                   "uninstall_move", "test"}

\* the command ends: it returned, raised or called sys.exit(0)
Ended(result, t) ==
    [command |-> run.command, dependency_only |-> run.dependency_only,
     restored |-> run.restored, start |-> run.start, result |-> result,
     end |-> t]
End(result, t) ==
    /\ tree' = t
    /\ log' = Append(log, Ended(result, t))
    /\ run' = NoRun
    /\ pc' = "idle"
Step(label, t) ==
    /\ tree' = t
    /\ pc' = label
    /\ UNCHANGED <<run, log>>

\* python install.py [--dependency-only] and python install.py --uninstall
StartInstall ==
    /\ pc = "idle"
    /\ Len(log) < MaxRuns
    /\ \E d \in BOOLEAN :
          run' = [command |-> "install", dependency_only |-> d,
                  restored |-> FALSE, start |-> tree]
    /\ pc' = "install"
    /\ UNCHANGED <<tree, log>>
    /\ UNCHANGED <<cavityVars, bondVars, updateVars, callVars, objectVars,
                   gnVars>>

StartUninstall ==
    /\ pc = "idle"
    /\ Len(log) < MaxRuns
    /\ run' = [command |-> "uninstall", dependency_only |-> FALSE,
               restored |-> FALSE, start |-> tree]
    /\ pc' = "uninstall"
    /\ UNCHANGED <<tree, log>>
    /\ UNCHANGED <<cavityVars, bondVars, updateVars, callVars, objectVars,
                   gnVars>>

\* an external process fails, or the command is interrupted: the
\* exception ends the command with the tree as it is
Abort ==
    /\ Running
    /\ End("raised", tree)
    /\ UNCHANGED <<cavityVars, bondVars, updateVars, callVars, objectVars,
                   gnVars>>

\* install, lines 669-699: a backup that exists is checked; an empty
\* directory or a symlink is corrupt (the factory python found there is
\* run with -V, which Abort covers when it fails)
InstallCheckBackup ==
    /\ pc = "install"
    /\ IF ~exists(tree, "old_python") THEN Step("rename", tree)
       ELSE IF is_empty_dir(tree, "old_python")
               \/ is_symlink(tree, "old_python")
            THEN End("raised", tree)
            ELSE Step("restore", tree)
    /\ UNCHANGED <<cavityVars, bondVars, updateVars, callVars, objectVars,
                   gnVars>>

\* lines 700-709: the path of the python is cleared for the backup
InstallRestoreClear ==
    /\ pc = "restore"
    /\ IF ~exists(tree, "python") THEN Step("restore_move", tree)
       ELSE IF is_symlink(tree, "python")
            THEN Step("restore_move", unlink(tree, "python"))
            ELSE IF is_dir(tree, "python") THEN End("raised", tree)
            ELSE Step("restore_move", unlink(tree, "python"))
    /\ UNCHANGED <<cavityVars, bondVars, updateVars, callVars, objectVars,
                   gnVars>>

\* line 711: shutil.move(factory_python_target, factory_python_source)
InstallRestoreMove ==
    /\ pc = "restore_move"
    /\ tree' = move(tree, "old_python", "python")
    /\ run' = [run EXCEPT !.restored = TRUE]
    /\ pc' = "rename"
    /\ UNCHANGED log
    /\ UNCHANGED <<cavityVars, bondVars, updateVars, callVars, objectVars,
                   gnVars>>

\* lines 716-754: the versions are read from Blender, then the factory
\* python is moved to the backup path
InstallRename ==
    /\ pc = "rename"
    /\ IF exists(tree, "old_python") THEN End("raised", tree)
       ELSE IF ~is_dir(tree, "python") \/ is_symlink(tree, "python")
            THEN End("raised", tree)
            ELSE Step("symlink", move(tree, "python", "old_python"))
    /\ UNCHANGED <<cavityVars, bondVars, updateVars, callVars, objectVars,
                   gnVars>>

\* lines 759-765: the conda prefix is linked at the path of the python
InstallSymlink ==
    /\ pc = "symlink"
    /\ Step("plugin",
            symlink(IF is_symlink(tree, "python") THEN unlink(tree, "python")
                    ELSE tree, "python"))
    /\ UNCHANGED <<cavityVars, bondVars, updateVars, callVars, objectVars,
                   gnVars>>

\* lines 767-792: conda env update, then the plugin directory is cleared;
\* the answer to "Overwrite? [y/N]" is the user's
InstallPlugin ==
    /\ pc = "plugin"
    /\ IF run.dependency_only THEN End("returned", tree)
       ELSE IF ~is_empty_dir(tree, "plugin")
            THEN \E choice \in BOOLEAN :
                    IF ~choice THEN End("exit", tree)
                    ELSE Step("copytree", rmtree(tree, "plugin"))
            ELSE Step("copytree", tree)
    /\ UNCHANGED <<cavityVars, bondVars, updateVars, callVars, objectVars,
                   gnVars>>

\* line 794: shutil.copytree(plugin_path_source, plugin_path_target)
InstallCopytree ==
    /\ pc = "copytree"
    /\ Step("enable", copytree(tree, "plugin"))
    /\ UNCHANGED <<cavityVars, bondVars, updateVars, callVars, objectVars,
                   gnVars>>

\* lines 796-814: the plugin is enabled and tested in Blender
InstallReturn ==
    /\ pc = "enable"
    /\ End("returned", tree)
    /\ UNCHANGED <<cavityVars, bondVars, updateVars, callVars, objectVars,
                   gnVars>>

\* uninstall, lines 826-837: the plugin is disabled and its directory
\* removed
UninstallPlugin ==
    /\ pc = "uninstall"
    /\ IF is_symlink(tree, "plugin") THEN Step("backup", unlink(tree, "plugin"))
       ELSE IF is_dir(tree, "plugin")
            THEN Step("backup", rmtree(tree, "plugin"))
            ELSE Step("backup", tree)
    /\ UNCHANGED <<cavityVars, bondVars, updateVars, callVars, objectVars,
                   gnVars>>

\* lines 840-877: without backup there is nothing to restore; otherwise
\* the path of the python is cleared
UninstallClear ==
    /\ pc = "backup"
    /\ IF ~exists(tree, "old_python") THEN End("returned", tree)
       ELSE IF ~is_dir(tree, "python") THEN Step("uninstall_move", tree)
       ELSE IF is_empty_dir(tree, "python")
            THEN Step("uninstall_move", rmtree(tree, "python"))
       ELSE IF is_symlink(tree, "python")
            THEN Step("uninstall_move", unlink(tree, "python"))
       ELSE \E overwrite \in BOOLEAN :
               IF overwrite
               THEN Step("uninstall_move", rmtree(tree, "python"))
               ELSE End("returned", tree)
    /\ UNCHANGED <<cavityVars, bondVars, updateVars, callVars, objectVars,
                   gnVars>>

\* lines 879-883: the backup is moved back, or linked when it is a link
UninstallMove ==
    /\ pc = "uninstall_move"
    /\ IF is_symlink(tree, "old_python")
       THEN Step("test", symlink(tree, "python"))
       ELSE Step("test", move(tree, "old_python", "python"))
    /\ UNCHANGED <<cavityVars, bondVars, updateVars, callVars, objectVars,
                   gnVars>>

\* lines 884-895: _blender_test_uninstall, then the command returns
UninstallReturn ==
    /\ pc = "test"
    /\ End("returned", tree)
    /\ UNCHANGED <<cavityVars, bondVars, updateVars, callVars, objectVars,
                   gnVars>>

\* a clean Blender tree on which no command has run
InstallInit ==
    /\ pc = "idle"
    /\ tree = CleanTree
    /\ run = NoRun
    /\ log = <<>>
    /\ CavityIdle
    /\ BondIdle
    /\ UpdateIdle
    /\ CallIdle
    /\ GnIdle
    /\ ObjectIdle

InstallNext ==
    \/ StartInstall
    \/ StartUninstall
    \/ Abort
    \/ InstallCheckBackup
    \/ InstallRestoreClear
    \/ InstallRestoreMove
    \/ InstallRename
    \/ InstallSymlink
    \/ InstallPlugin
    \/ InstallCopytree
    \/ InstallReturn
    \/ UninstallPlugin
    \/ UninstallClear
    \/ UninstallMove
    \/ UninstallReturn

InstallSpec == InstallInit /\ [][InstallNext]_vars

(***************************************************************************)
(* Claims on the installer.                                                *)
(***************************************************************************)
\* a real copy of the factory python is at one of its two paths
FactoryKept == tree.python = "factory" \/ tree.old_python = "factory"

\* C29: from a clean tree, in every state of every sequence of install and
\* uninstall runs in conda mode, runs that end with an exception after any
\* step included, the real directory of the factory python is at
\* <blender_root>/python or at <blender_root>/_old_python; and an install
\* run that starts with a backup moves the factory python to the backup
\* path only after it has restored the backup to python.
C29_FactoryPythonKept ==
    /\ []FactoryKept
    /\ [][pc = "rename" /\ tree' # tree /\ exists(run.start, "old_python") =>
             /\ run.restored
             /\ tree.python = "factory"
             /\ tree'.old_python = "factory"]_vars

\* an install run that found the backup of an earlier, aborted run has
\* restored it and moved the factory python to the backup path again
C29_Witness ==
    /\ pc = "symlink"
    /\ run.command = "install"
    /\ run.start = Tree("absent", "factory", "absent")
    /\ run.restored
    /\ tree.old_python = "factory"
    /\ Len(log) >= 1
    /\ log[Len(log)].result = "raised"

\* C30: from a clean tree, an install run in conda mode that returns (the
\* plugin included) leaves python a symlink to the conda prefix,
\* _old_python the real factory directory and the plugin copied; an
\* uninstall run that follows it and returns leaves the tree as it was
\* before the install: python the real factory directory, no _old_python
\* and no plugin directory.
C30_InstallUninstallRoundTrip ==
    \A k \in DOMAIN log :
        /\ log[k].command = "install"
        /\ log[k].result = "returned"
        /\ ~log[k].dependency_only
        /\ log[k].start = CleanTree
        => /\ log[k].end = Tree("conda", "factory", "batoms")
           /\ k + 1 \in DOMAIN log /\ log[k+1].command = "uninstall"
                  /\ log[k+1].result = "returned" =>
                      log[k+1].end = CleanTree

\* an install from the clean tree has returned and the uninstall after it
\* has returned
C30_Witness ==
    /\ Len(log) >= 2
    /\ log[1].command = "install" /\ log[1].result = "returned"
    /\ ~log[1].dependency_only /\ log[1].start = CleanTree
    /\ log[2].command = "uninstall" /\ log[2].result = "returned"
    /\ tree = CleanTree

====
